---- MODULE Spec2Model ----
(***************************************************************************)
(* ffplayout: the forwarding loop of play() (src/src/output/mod.rs).       *)
(* One sequential loop pulls media items, spawns one decoder per item,     *)
(* reads the decoder's stdout, polls the ingest channel without blocking   *)
(* and writes either the ingest chunk or the decoder bytes to the          *)
(* encoder's stdin.  The ingest server, the media source and the child     *)
(* processes are the environment: their results are nondeterministic.      *)
(***************************************************************************)
EXTENDS Integers, Sequences, FiniteSets, TLC

(* ------------------------------ bounds --------------------------------- *)
\* longest schedule the media source yields
MaxItems == 2
\* most bytes the decoders of one session write to their stdout
MaxDecBytes == 2
\* length of `buffer` (65424 in the source, scaled down)
BufLen == 2
\* most chunks the ingest server sends into the channel
MaxChunks == 2
\* longest input path given to norm_abs_path, in characters
MaxPathLen == 4
\* longest argument list of a node (cmd, filter) and of the settings
MaxArgs == 2
\* largest `limit` a MediaMap is created with
MaxLimit == 2
\* most calls made on one MediaMap
MaxCalls == 5
\* most bucket listings one watch_s3 task sends
MaxListings == 3
\* most media in the list of a FolderSource
MaxMedia == 3
\* most calls of FolderSource::next
MaxNext == 7

(* ------------------------------ values --------------------------------- *)
\* Option<T>: None, Some(x)
None == <<>>
Some(x) == <<x>>

\* a Media node as far as play() looks at it: node.cmd is Some/None,
\* node.process is Some(true)/Some(false); play() does not read the
\* process field of a node without command, it is fixed to false here
Media == {n \in [cmd : BOOLEAN, process : BOOLEAN] : n.process => n.cmd}

Schedules == UNION {[1..n -> Media] : n \in 0..MaxItems}

Min(a, b) == IF a < b THEN a ELSE b

Last(s) == s[Len(s)]

\* outcomes of a fallible call
Results == {"Ok", "Err"}

VARIABLES
    \* configuration
    mode,            \* config.processing.mode
    ingest_enable,   \* config.ingest.enable
    \* environment
    source,          \* what get_source still yields
    chan,            \* chunks in the ingest channel, oldest first
    sent,            \* chunks the ingest server has sent so far
    decPos,          \* bytes the current decoder has delivered
    decEof,          \* the current decoder's stdout reached end of file
    \* shared cells
    decoder_term, encoder_term, server_term, is_terminated, init_playlist,
    \* locals of play()
    pc, node, itemNo, buffer, receive, live_on, kill_dec,
    \* history
    encOut,          \* everything written to the encoder's stdin
    decIn,           \* every byte read from a decoder's stdout
    spawned, reaped, \* items whose decoder was spawned / waited for
    termLog,         \* termination requests, in order
    hist,            \* per-item and per-session observations
    \* norm_abs_path
    root_path,       \* the root_path argument
    input_path,      \* the input_path argument
    path_out,        \* None, or Some of the value returned
    \* the composition of the decoder command (play(), lines 121-131)
    dec_args,        \* node.cmd, node.filter, dec_settings and dec_cmd
    \* engine/src/file
    media_map,       \* a MediaMap, its two mutexes and its callers
    watch,           \* watch_s3: its locals, the bucket and `sources`
    \* the mutexes of play()'s shared cells
    guards,          \* who holds which cell, and where the holders are
    \* engine/src/player/input/folder.rs
    folder           \* a FolderSource, the shared list and index, a watcher

vars == <<mode, ingest_enable, source, chan, sent, decPos, decEof,
          decoder_term, encoder_term, server_term, is_terminated,
          init_playlist, pc, node, itemNo, buffer, receive, live_on,
          kill_dec, encOut, decIn, spawned, reaped, termLog, hist,
          root_path, input_path, path_out, dec_args, media_map, watch,
          guards, folder>>

pathVars == <<root_path, input_path, path_out>>
\* what play() as modelled by Spec does not touch
auxVars == <<pathVars, dec_args, media_map, watch, guards, folder>>
cfgVars == <<mode, ingest_enable>>
cellVars == <<decoder_term, encoder_term, server_term, is_terminated,
              init_playlist>>
decVars == <<decPos, decEof>>
procVars == <<spawned, reaped>>

NoNode == [cmd |-> FALSE, process |-> FALSE]

\* observations that are reset for every item
ItemHist == [chunkSeen |-> FALSE,   \* try_recv returned a chunk
             takenOver |-> FALSE,   \* an ingest chunk was written
             nResync |-> 0,         \* writes of true to init
             readAfter |-> FALSE,   \* a decoder read followed the takeover
             decTermErr |-> FALSE]  \* the latest dec.terminate() failed

InitHist == [item |-> ItemHist,
             writeFailed |-> FALSE, \* an encoder write returned Err
             noCmd |-> FALSE,       \* the source yielded cmd None / ended
             fatal |-> "none",      \* the call play() panicked on
             pulled |-> <<>>,       \* the nodes pulled so far
             since |-> <<>>]        \* per queued chunk: decoder writes
                                    \* done since it was sent

(* ------------------------- the media source ---------------------------- *)
\* CurrentProgram::next consumes the init flag it shares with play()
MediaSourceNext(init) == IF init = None THEN None ELSE Some(FALSE)

(* ------------------------------ Init ----------------------------------- *)
\* lines 30-35 and 39-103: the cells are empty, the encoder is spawned and
\* its terminator stored, the ingest channel is empty
PlayInit ==
    /\ mode \in {"folder", "playlist"}
    /\ ingest_enable \in BOOLEAN
    /\ source \in Schedules
    /\ chan = <<>>
    /\ sent = 0
    /\ decPos = 0
    /\ decEof = FALSE
    /\ decoder_term = None
    /\ encoder_term \in {None, Some("enc")}
    /\ server_term = None
    /\ is_terminated = FALSE
    /\ init_playlist = IF mode = "playlist" THEN Some(TRUE) ELSE None
    /\ pc = "pull"
    /\ node = NoNode
    /\ itemNo = 0
    /\ buffer = <<>>
    /\ receive = 0
    /\ live_on = FALSE
    /\ kill_dec = FALSE
    /\ encOut = <<>>
    /\ decIn = <<>>
    /\ spawned = {}
    /\ reaped = {}
    /\ termLog = <<>>
    /\ hist = InitHist

\* no call of norm_abs_path is under way
PathIdle ==
    /\ root_path = <<>>
    /\ input_path = <<>>
    /\ path_out = None

\* the other parts of the program are not running
ArgsIdle == dec_args = <<>>
MapIdle == media_map = <<>>
WatchIdle == watch = <<>>
GuardsIdle == guards = <<>>
FolderIdle == folder = <<>>

Init ==
    /\ PlayInit /\ PathIdle /\ ArgsIdle /\ MapIdle /\ WatchIdle /\ GuardsIdle
    /\ FolderIdle

(* --------------------------- play(): items ----------------------------- *)
ShutdownPcs == {"set_terminated", "term_dec", "term_enc", "term_srv", "done"}
ItemPcs == {"spawn", "read", "poll", "write_ingest", "write_dec", "wait"}

\* a loop that forgets the `continue` of line 112
NodeBranch_NoSkip(n) == IF ~n.cmd THEN "break" ELSE "play"

\* a loop that tests node.process before node.cmd
NodeBranch_ProcessFirst(n) ==
    IF ~n.process THEN "continue"
    ELSE IF ~n.cmd THEN "break"
    ELSE "play"

\* lines 106-113: no command ends the loop, a node that is not to be
\* processed is skipped
NodeBranch(n) ==
    IF ~n.cmd THEN "break"
    ELSE IF ~n.process THEN "continue"
    ELSE "play"

\* a failure that is logged and answered by going on to the next node
Fatal_NextNode == "pull"

\* lines 141, 165, 210: panic! ends play()
Fatal == "panic"

\* a `continue 'source_iter` in place of the break
BreakSourceIter_Continue == "pull"

\* an unlabelled `break`, which only leaves the inner loop
BreakSourceIter_InnerOnly == "wait"

\* `break 'source_iter` and the end of the for loop lead to line 214
BreakSourceIter == "set_terminated"

\* line 105: the for loop asks get_source for the next node
Pull ==
    /\ pc = "pull"
    /\ init_playlist' = MediaSourceNext(init_playlist)
    /\ IF source = <<>>
       THEN /\ pc' = BreakSourceIter
            /\ hist' = [hist EXCEPT !.item = ItemHist, !.noCmd = TRUE]
            /\ UNCHANGED <<source, node, itemNo>>
       ELSE LET n == Head(source) IN
            /\ source' = Tail(source)
            /\ node' = n
            /\ itemNo' = itemNo + 1
            /\ hist' = [hist EXCEPT !.item = ItemHist,
                                    !.noCmd = ~n.cmd,
                                    !.pulled = Append(@, n)]
            /\ pc' = CASE NodeBranch(n) = "break" -> BreakSourceIter
                       [] NodeBranch(n) = "continue" -> "pull"
                       [] OTHER -> "spawn"
    /\ UNCHANGED <<auxVars, cfgVars, chan, sent, decVars, decoder_term, encoder_term,
                   server_term, is_terminated, buffer, receive, live_on,
                   kill_dec, encOut, decIn, procVars, termLog>>

\* an inner loop whose read is done once, before the loop
LoopTop_PollOnly == "poll"

\* lines 162-163: every iteration of the inner loop starts with the read
LoopTop == "read"

\* the decoder's terminator stored in the encoder's cell as well
EncoderTermAfter_Overwritten(dec_terminator) == dec_terminator

\* line 150 stores dec_terminator in decoder_term only: encoder_term keeps
\* the value of line 85
EncoderTermAfter(dec_terminator) == encoder_term

\* lines 133-160: spawn the decoder, store its terminator, kill_dec = true
SpawnDecoder ==
    /\ pc = "spawn"
    /\ \E r \in Results :
         IF r = "Err"
         THEN /\ pc' = Fatal
              /\ hist' = [hist EXCEPT !.fatal = "spawn"]
              /\ UNCHANGED <<decVars, decoder_term, encoder_term, kill_dec,
                             spawned>>
         ELSE /\ \E t \in Results :
                    LET dec_terminator ==
                          IF t = "Ok" THEN Some(itemNo) ELSE None
                    IN /\ decoder_term' = dec_terminator
                       /\ encoder_term' = EncoderTermAfter(dec_terminator)
              /\ spawned' = spawned \cup {itemNo}
              /\ decPos' = 0
              /\ decEof' = FALSE
              /\ kill_dec' = TRUE
              /\ pc' = LoopTop
              /\ UNCHANGED hist
    /\ UNCHANGED <<auxVars, cfgVars, source, chan, sent, server_term,
                   is_terminated, init_playlist, node, itemNo, buffer,
                   receive, live_on, encOut, decIn, reaped, termLog>>

\* the bytes a read of len bytes puts into buffer
DecBytes(len) == [k \in 1..len |-> <<"d", itemNo, decPos + k>>]

\* lines 163-166: blocking read of the decoder's stdout
Read ==
    /\ pc = "read"
    /\ \/ /\ pc' = Fatal
          /\ hist' = [hist EXCEPT !.fatal = "read"]
          /\ UNCHANGED <<buffer, decVars, decIn>>
       \/ \E len \in 0..(IF decEof THEN 0
                         ELSE Min(BufLen, MaxDecBytes - Len(decIn))) :
            /\ buffer' = DecBytes(len)
            /\ decPos' = decPos + len
            /\ decEof' = (decEof \/ len = 0)
            /\ decIn' = decIn \o DecBytes(len)
            /\ hist' = [hist EXCEPT !.item.readAfter = hist.item.takenOver]
            /\ pc' = "poll"
    /\ UNCHANGED <<auxVars, cfgVars, source, chan, sent, cellVars, node, itemNo,
                   receive, live_on, kill_dec, encOut, procVars, termLog>>

\* the arms in another order: decoder bytes before the ingest chunk
PollBranch_DecoderFirst(hasChunk, len) ==
    IF len > 0 THEN "decoder"
    ELSE IF hasChunk THEN "ingest"
    ELSE "handback"

\* the arms in another order: end of decoder output before the chunk
PollBranch_EofFirst(hasChunk, len) ==
    IF len = 0 THEN "handback"
    ELSE IF hasChunk THEN "ingest"
    ELSE "decoder"

\* lines 168, 192, 198: which arm of the if/else-if/else runs
PollBranch(hasChunk, len) ==
    IF hasChunk THEN "ingest"
    ELSE IF len > 0 THEN "decoder"
    ELSE "handback"

\* a blocking recv(): the poll waits until a chunk is there
PollReady_Blocking(ch) == ch # <<>>

\* line 168: try_recv() returns at once, with or without a chunk
PollReady(ch) == TRUE

\* a receiver that hands out the newest chunk
TryRecv_Newest(ch) == Last(ch)

\* line 168: try_recv() hands out the oldest chunk of the channel
TryRecv(ch) == Head(ch)

\* lines 168-206: ingest_receiver.try_recv() and the choice of the arm;
\* the last arm clears live_on and leaves the inner loop
Poll ==
    /\ pc = "poll"
    /\ PollReady(chan)
    /\ LET b == PollBranch(chan # <<>>, Len(buffer)) IN
       CASE b = "ingest" ->
              /\ receive' = TryRecv(chan)
              /\ chan' = Tail(chan)
              /\ hist' = [hist EXCEPT !.item.chunkSeen = TRUE,
                                      !.since = Tail(@)]
              /\ pc' = "write_ingest"
              /\ UNCHANGED live_on
         [] b = "decoder" ->
              /\ pc' = "write_dec"
              /\ UNCHANGED <<receive, chan, hist, live_on>>
         [] OTHER ->
              /\ live_on' = FALSE
              /\ pc' = "wait"
              /\ UNCHANGED <<receive, chan, hist>>
    /\ UNCHANGED <<auxVars, cfgVars, source, sent, decVars, cellVars, node, itemNo,
                   buffer, kill_dec, encOut, decIn, procVars, termLog>>

\* a failed request that ends the shutdown sequence
AfterTerminate_StopOnErr(r, next) == IF r = "Err" THEN "done" ELSE next

\* a failed request that is treated like a failed encoder write
AfterTerminate_BreakOnErr(r, next) ==
    IF r = "Err" THEN "set_terminated" ELSE next

\* lines 180-182, 220-222, 228-230, 236-238: `if let Ok(_) = x.terminate()`
\* only logs; whatever the result r, play() goes on with what follows
AfterTerminate(r, next) == next

\* kill_dec left set after the takeover
KillDecAfterTakeover_Kept == TRUE

\* line 186
KillDecAfterTakeover == FALSE

\* the takeover without the resync request
ResyncInit_Skipped(init) == init

\* lines 188-190: the resync request, only in playlist mode
ResyncInit(init) == IF init = None THEN None ELSE Some(TRUE)

\* lines 169-191: write_all of the chunk; on success live_on and, while
\* kill_dec holds, the takeover
WriteIngest ==
    /\ pc = "write_ingest"
    /\ \/ /\ pc' = BreakSourceIter
          /\ encOut' \in {encOut,
                          Append(encOut, <<"i", receive, itemNo, "part">>)}
          /\ hist' = [hist EXCEPT !.writeFailed = TRUE]
          /\ UNCHANGED <<live_on, kill_dec, init_playlist, termLog>>
       \/ /\ encOut' = Append(encOut, <<"i", receive, itemNo, "full">>)
          /\ live_on' = TRUE
          /\ IF kill_dec /\ decoder_term # None
             THEN \E r \in Results :
                    /\ termLog' = Append(termLog,
                                        <<"dec", decoder_term, "takeover">>)
                    /\ pc' = AfterTerminate(r, LoopTop)
                    /\ kill_dec' = KillDecAfterTakeover
                    /\ init_playlist' = ResyncInit(init_playlist)
                    /\ hist' = [hist EXCEPT
                         !.item.takenOver = TRUE,
                         !.item.decTermErr = (r = "Err"),
                         !.item.nResync =
                             IF init_playlist # None THEN @ + 1 ELSE @]
             ELSE IF kill_dec
             THEN /\ pc' = LoopTop
                  /\ kill_dec' = KillDecAfterTakeover
                  /\ init_playlist' = ResyncInit(init_playlist)
                  /\ hist' = [hist EXCEPT
                       !.item.takenOver = TRUE,
                       !.item.nResync =
                           IF init_playlist # None THEN @ + 1 ELSE @]
                  /\ UNCHANGED termLog
             ELSE /\ pc' = LoopTop
                  /\ hist' = [hist EXCEPT !.item.takenOver = TRUE]
                  /\ UNCHANGED <<kill_dec, init_playlist, termLog>>
    /\ UNCHANGED <<auxVars, cfgVars, source, chan, sent, decVars, decoder_term,
                   encoder_term, server_term, is_terminated, node, itemNo,
                   buffer, receive, decIn, procVars>>

\* the byte counts one successful write() of n bytes to the pipe can
\* return: it may take fewer than n
WriteCounts(n) == 1..n

\* a write that sends the bytes last to first
BufferSlice_Reversed(buf, k) == [i \in 1..k |-> buf[k + 1 - i]]

\* line 193: the first k bytes of &buffer[..dec_bytes_len], in order
BufferSlice(buf, k) == SubSeq(buf, 1, k)

\* lines 193-197: write (not write_all) of buffer[..dec_bytes_len]; the
\* returned count is dropped
WriteDec ==
    /\ pc = "write_dec"
    /\ \/ /\ pc' = BreakSourceIter
          /\ hist' = [hist EXCEPT !.writeFailed = TRUE]
          /\ UNCHANGED encOut
       \/ \E k \in WriteCounts(Len(buffer)) :
            /\ encOut' = encOut \o BufferSlice(buffer, k)
            /\ hist' = [hist EXCEPT
                 !.since = [i \in DOMAIN @ |-> @[i] + 1]]
            /\ pc' = LoopTop
    /\ UNCHANGED <<auxVars, cfgVars, source, chan, sent, decVars, cellVars, node,
                   itemNo, buffer, receive, live_on, kill_dec, decIn,
                   procVars, termLog>>

\* lines 209-211: dec_proc.wait()
Wait ==
    /\ pc = "wait"
    /\ \/ /\ pc' = Fatal
          /\ hist' = [hist EXCEPT !.fatal = "wait"]
          /\ UNCHANGED reaped
       \/ /\ reaped' = reaped \cup {itemNo}
          /\ pc' = "pull"
          /\ UNCHANGED hist
    /\ UNCHANGED <<auxVars, cfgVars, source, chan, sent, decVars, cellVars, node,
                   itemNo, buffer, receive, live_on, kill_dec, encOut,
                   decIn, spawned, termLog>>

(* -------------------------- play(): shutdown --------------------------- *)
Terminated_Toggled == ~is_terminated

\* the value line 214 stores in is_terminated
Terminated == TRUE

\* lines 214-216
SetTerminated ==
    /\ pc = "set_terminated"
    /\ is_terminated' = Terminated
    /\ pc' = "term_dec"
    /\ UNCHANGED <<auxVars, cfgVars, source, chan, sent, decVars, decoder_term,
                   encoder_term, server_term, init_playlist, node, itemNo,
                   buffer, receive, live_on, kill_dec, encOut, decIn,
                   procVars, termLog, hist>>

\* one `if let Some(x) = &*slot.lock().unwrap() { x.terminate() }`
Terminate(who, slot, next) ==
    /\ IF slot # None
       THEN \E r \in Results :
              /\ termLog' = Append(termLog, <<who, slot, "shutdown">>)
              /\ pc' = AfterTerminate(r, next)
              /\ hist' = IF who = "dec"
                         THEN [hist EXCEPT !.item.decTermErr = (r = "Err")]
                         ELSE hist
       ELSE /\ pc' = next
            /\ UNCHANGED <<termLog, hist>>
    /\ UNCHANGED <<auxVars, cfgVars, source, chan, sent, decVars, cellVars, node,
                   itemNo, buffer, receive, live_on, kill_dec, encOut,
                   decIn, procVars>>

\* lines 218-224
TermDecoder == pc = "term_dec" /\ Terminate("dec", decoder_term, "term_enc")

\* lines 226-232
TermEncoder == pc = "term_enc" /\ Terminate("enc", encoder_term, "term_srv")

\* lines 234-242
TermServer == pc = "term_srv" /\ Terminate("srv", server_term, "done")

(* --------------------------- ingest server ----------------------------- *)
\* ingest_server (spawned at lines 95-103) stores the terminator of its
\* listener in server_term before it forwards chunks
ServerRegister ==
    /\ ingest_enable
    /\ server_term = None
    /\ pc \notin {"done", "panic"}
    /\ server_term' = Some("srv")
    /\ UNCHANGED <<auxVars, cfgVars, source, chan, sent, decVars, decoder_term,
                   encoder_term, is_terminated, init_playlist, pc, node,
                   itemNo, buffer, receive, live_on, kill_dec, encOut,
                   decIn, procVars, termLog, hist>>

\* ingest_sender.send(chunk): the channel (lines 92-93) is unbounded
IngestSend ==
    /\ ingest_enable
    /\ server_term # None
    /\ sent < MaxChunks
    /\ pc \notin {"done", "panic"}
    /\ sent' = sent + 1
    /\ chan' = Append(chan, sent + 1)
    /\ hist' = [hist EXCEPT !.since = Append(@, 0)]
    /\ UNCHANGED <<auxVars, cfgVars, source, decVars, cellVars, pc, node, itemNo,
                   buffer, receive, live_on, kill_dec, encOut, decIn,
                   procVars, termLog>>

(* --------------------------- specification ----------------------------- *)
PlayStep ==
    \/ Pull
    \/ SpawnDecoder
    \/ Read
    \/ Poll
    \/ WriteIngest
    \/ WriteDec
    \/ Wait
    \/ SetTerminated
    \/ TermDecoder
    \/ TermEncoder
    \/ TermServer

Next ==
    \/ PlayStep
    \/ ServerRegister
    \/ IngestSend

Spec == Init /\ [][Next]_vars

\* play() is one running thread: it takes its next step
FairSpec == Spec /\ WF_vars(PlayStep)

\* is_terminated is shared (lines 65, 101): a holder of a clone of the cell
\* sets it while play() is running
CollaboratorSetsTerminated ==
    /\ pc \notin {"done", "panic"}
    /\ ~is_terminated
    /\ is_terminated' = TRUE
    /\ UNCHANGED <<auxVars, cfgVars, source, chan, sent, decVars, decoder_term,
                   encoder_term, server_term, init_playlist, pc, node,
                   itemNo, buffer, receive, live_on, kill_dec, encOut,
                   decIn, procVars, termLog, hist>>

EarlyNext ==
    \/ Next
    \/ CollaboratorSetsTerminated

\* play() together with a collaborator that ends the session early
EarlySpec == Init /\ [][EarlyNext]_vars

TypeOK ==
    /\ pc \in ItemPcs \cup ShutdownPcs \cup {"pull", "panic"}
    /\ decoder_term \in {None} \cup {Some(i) : i \in 1..MaxItems}
    /\ init_playlist \in {None, Some(TRUE), Some(FALSE)}
    /\ Len(chan) = Len(hist.since)
    /\ sent \in 0..MaxChunks
    /\ decPos \in 0..MaxDecBytes
    /\ Len(buffer) <= BufLen

(* ------------------------------ helpers -------------------------------- *)
IsIngest(e) == e[1] = "i"
IsDecoder(e) == e[1] = "d"

\* termination requests made for item i's decoder during its inner loop
TakeoverReqs(i) ==
    Cardinality({k \in DOMAIN termLog :
                   /\ termLog[k][1] = "dec"
                   /\ termLog[k][3] = "takeover"
                   /\ termLog[k][2] = Some(i)})

\* termination requests of the shutdown sequence addressed to `who`
ShutdownReqs(who) ==
    {k \in DOMAIN termLog : termLog[k][1] = who /\ termLog[k][3] = "shutdown"}

\* positions of play() after the chunk of the current iteration was written
AfterIngestWrite == {"read", "poll", "write_dec", "wait"}

(* ------------------------------- claims -------------------------------- *)

\* C1: with no ingest chunk received, and no encoder write having failed,
\* the bytes written to the encoder are the concatenation of all decoder
\* reads in read order, whatever count each write() returned.
C1_PassThrough ==
    (receive = 0 /\ ~hist.writeFailed /\ pc \notin {"poll", "write_dec"})
        => encOut = decIn

\* C2 as stated: once a chunk was observed during an item, that item's
\* decoder has been asked to terminate exactly once before the next read.
C2_ExactlyOnce ==
    (pc = "read" /\ hist.item.chunkSeen) => TakeoverReqs(itemNo) = 1

\* C2 amended: after the first chunk of an item was written, termination
\* of that item's decoder has been requested exactly once if the decoder
\* slot is populated and never if it is empty; the request precedes the
\* next read and is not repeated for later chunks.
C2_OncePerTakeover ==
    /\ \A i \in 1..itemNo : TakeoverReqs(i) <= 1
    /\ (pc \in AfterIngestWrite /\ hist.item.chunkSeen)
          => TakeoverReqs(itemNo) = IF decoder_term = None THEN 0 ELSE 1

C2_Witness ==
    /\ pc = "read"
    /\ hist.item.chunkSeen
    /\ receive = 2
    /\ TakeoverReqs(itemNo) = 1

\* C3: no decoder byte of an item is written to the encoder after an
\* ingest chunk was written while that item was current.
C3_NoScheduledAfterLive ==
    \A i, j \in DOMAIN encOut :
        (i < j /\ IsIngest(encOut[i]) /\ IsDecoder(encOut[j]))
            => encOut[j][2] # encOut[i][3]

\* the iteration's poll decides: handback exactly when the read was empty
\* and the channel gave no chunk
HandbackIff ==
    (pc = "poll" /\ pc' # pc)
        => ((pc' = "wait" /\ ~live_on') <=> (Len(buffer) = 0 /\ chan = <<>>))

ChunkForwardedLive ==
    /\ encOut' = Append(encOut, <<"i", receive, itemNo, "full">>)
    /\ live_on'
    /\ pc' = "read"

\* C4 as stated: handback happens iff the read was zero-length and the
\* poll returned no chunk; a chunk polled after a zero-length read is
\* forwarded, the state is Live and the inner loop goes on.
C4_HandbackOriginal ==
    [][/\ HandbackIff
       /\ (pc = "write_ingest" /\ pc' # pc /\ Len(buffer) = 0)
             => ChunkForwardedLive]_vars

\* C4 amended: as stated, except that when the write of that chunk fails
\* the inner loop is left for the shutdown sequence (not for ItemDone) and
\* Live is not set.
C4_Handback ==
    [][/\ HandbackIff
       /\ (pc = "write_ingest" /\ pc' # pc /\ Len(buffer) = 0)
             => \/ ChunkForwardedLive
                \/ /\ hist'.writeFailed
                   /\ pc' = "set_terminated"
                   /\ live_on' = live_on
                   /\ reaped' = reaped]_vars

C4_Witness ==
    /\ pc = "read"
    /\ decEof
    /\ buffer = <<>>
    /\ live_on
    /\ encOut # <<>>
    /\ IsIngest(Last(encOut))

\* C5: after a failed encoder write no item is pulled, no decoder is read
\* or spawned and nothing more is written to the encoder; play() runs the
\* shutdown sequence (is_terminated set before the termination requests)
\* to its end and does not panic.
C5_WriteFailureEndsSession ==
    /\ [](hist.writeFailed =>
            /\ pc \in ShutdownPcs
            /\ (pc # "set_terminated" => is_terminated)
            /\ (pc = "done" /\ encoder_term # None
                  => ShutdownReqs("enc") # {}))
    /\ [][hist.writeFailed =>
            /\ encOut' = encOut
            /\ decIn' = decIn
            /\ source' = source
            /\ spawned' = spawned]_vars
    /\ [][(~is_terminated /\ termLog' # termLog)
            => Last(termLog')[3] = "takeover"]_vars
    /\ (hist.writeFailed ~> pc = "done")

C5_Witness ==
    /\ hist.writeFailed
    /\ pc = "done"
    /\ spawned # {}

\* C6: when play() finishes, every decoder that was spawned has been
\* waited for.
C6_AllReaped ==
    pc = "done" => spawned \subseteq reaped

\* C7: a polled chunk is what the iteration writes, and while a chunk is
\* waiting in the channel at most one buffer of decoder bytes is written.
C7_LivePriority ==
    /\ [](/\ \A i \in DOMAIN hist.since : hist.since[i] <= 1
          /\ Len(buffer) <= BufLen)
    /\ [][(pc = "poll" /\ pc' # pc /\ chan # <<>>)
            => /\ pc' = "write_ingest"
               /\ receive' = Head(chan)
               /\ encOut' = encOut]_vars
    /\ [][(pc = "write_ingest" /\ encOut' # encOut)
            => /\ Len(encOut') = Len(encOut) + 1
               /\ IsIngest(Last(encOut'))
               /\ Last(encOut')[2] = receive]_vars

C7_Witness ==
    /\ hist.since # <<>>
    /\ hist.since[1] = 1
    /\ pc = "poll"

\* C8: init is set to true at most once per takeover, and it is true when
\* the source is asked for the next item after the handback.
C8_Resync ==
    /\ hist.item.nResync <= 1
    /\ (pc = "pull" /\ hist.item.takenOver /\ init_playlist # None)
          => init_playlist = Some(TRUE)

C8_Witness ==
    /\ pc = "pull"
    /\ hist.item.takenOver
    /\ init_playlist = Some(TRUE)
    /\ itemNo = 2

\* C9: a node with process = false causes no spawn, read or write, and
\* the loop goes on to the next node.
C9_SkipNotPlayable ==
    /\ [](/\ \A i \in spawned : hist.pulled[i].process
          /\ (pc \in ItemPcs => node.process)
          /\ ((\A i \in DOMAIN hist.pulled : ~hist.pulled[i].process)
                => spawned = {} /\ encOut = <<>> /\ decIn = <<>>))
    /\ [][(/\ pc = "pull"
           /\ source' # source
           /\ Head(source).cmd
           /\ ~Head(source).process)
            => /\ pc' = "pull"
               /\ source' = Tail(source)
               /\ spawned' = spawned
               /\ encOut' = encOut
               /\ decIn' = decIn]_vars

C9_Witness ==
    /\ pc = "pull"
    /\ Len(hist.pulled) = 2
    /\ \A i \in 1..2 : hist.pulled[i].cmd /\ ~hist.pulled[i].process
    /\ spawned = {}

\* C10: once the source yielded a node without command, or nothing, no
\* node is pulled and no decoder spawned any more, and the shutdown
\* sequence runs to its end; a skipped node followed by a node without
\* command ends the session with no decoder spawned.
C10_NoCommandEndsSession ==
    /\ [](hist.noCmd =>
            /\ pc \in ShutdownPcs
            /\ (pc # "set_terminated" => is_terminated))
    /\ []((/\ Len(hist.pulled) = 2
           /\ hist.pulled[1].cmd /\ ~hist.pulled[1].process
           /\ ~hist.pulled[2].cmd)
            => hist.noCmd /\ spawned = {})
    /\ [][hist.noCmd =>
            /\ source' = source
            /\ itemNo' = itemNo
            /\ spawned' = spawned
            /\ encOut' = encOut]_vars
    /\ (hist.noCmd ~> pc = "done")

C10_Witness ==
    /\ pc = "done"
    /\ hist.noCmd
    /\ Len(hist.pulled) = 2
    /\ hist.pulled[1].cmd /\ ~hist.pulled[1].process
    /\ ~hist.pulled[2].cmd
    /\ spawned = {}

\* one step of the shutdown sequence: at position `at` the slot is asked
\* to terminate if and only if it is populated, and `next` follows
ShutdownStep(at, who, slot, next) ==
    (pc = at /\ pc' # pc)
        => /\ pc' = next
           /\ termLog' = IF slot # None
                         THEN Append(termLog, <<who, slot, "shutdown">>)
                         ELSE termLog

\* C11: is_terminated is set before any termination request of the
\* shutdown sequence; then the decoder, the encoder and the ingest server
\* are asked to terminate in this order, each if and only if its slot is
\* populated, whatever the earlier requests returned.
C11_ShutdownOrder ==
    /\ [](\A k \in DOMAIN termLog :
            termLog[k][3] = "shutdown" => is_terminated)
    /\ [][(pc = "set_terminated" /\ pc' # pc)
            => pc' = "term_dec" /\ is_terminated' /\ termLog' = termLog]_vars
    /\ [][ShutdownStep("term_dec", "dec", decoder_term, "term_enc")]_vars
    /\ [][ShutdownStep("term_enc", "enc", encoder_term, "term_srv")]_vars
    /\ [][ShutdownStep("term_srv", "srv", server_term, "done")]_vars
    /\ [][(termLog' # termLog /\ Last(termLog')[3] = "shutdown")
            => pc \in {"term_dec", "term_enc", "term_srv"}]_vars

C11_Witness ==
    /\ pc = "done"
    /\ hist.item.decTermErr
    /\ Len(termLog) >= 3
    /\ LET n == Len(termLog) IN
       /\ termLog[n - 2] = <<"dec", decoder_term, "shutdown">>
       /\ termLog[n - 1][1] = "enc"
       /\ termLog[n][1] = "srv"

\* C12: when is_terminated has been set by a collaborator and play() is at
\* the item boundary, play() does not go on to play a further item: it
\* leaves the boundary only for the shutdown sequence.
C12_EarlyShutdown ==
    [][(pc = "pull" /\ is_terminated) => pc' \in {"pull", "set_terminated"}]_vars

\* C13: at most one decoder is spawned and not yet reaped, and a decoder is
\* spawned only when every earlier decoder has been reaped.
C13_OneDecoderAlive ==
    /\ [](Cardinality(spawned \ reaped) <= 1)
    /\ [][spawned' # spawned => spawned = reaped]_vars

C13_Witness ==
    /\ Cardinality(spawned) >= 2
    /\ Cardinality(spawned \ reaped) = 1
    /\ pc \in ItemPcs

\* C15: is_terminated starts false and no step of play() or of a
\* collaborator sets it back to false once it is true.
C15_Monotonic ==
    /\ ~is_terminated
    /\ [][is_terminated => is_terminated']_vars

C15_Witness ==
    /\ is_terminated
    /\ pc \in ItemPcs
    /\ encOut # <<>>

\* the ingest chunks written to the encoder, in the order of the writes
IngestTokens == SelectSeq(encOut, IsIngest)

\* the chunks taken from the channel so far
Taken == sent - Len(chan)

\* C14 as stated: the chunks reach the encoder in production order, and
\* every chunk taken from the channel is written completely, exactly once.
C14_InOrderComplete ==
    /\ \A k \in DOMAIN IngestTokens :
         IngestTokens[k][2] = k /\ IngestTokens[k][4] = "full"
    /\ Len(IngestTokens) = IF pc = "write_ingest" THEN Taken - 1 ELSE Taken

\* C14: the chunks reach the encoder in production order, none twice and
\* none ahead of an earlier one; every chunk taken from the channel is
\* written completely, except the one whose write_all fails: of that
\* chunk a part or nothing is written, it is the last one written, and
\* the session ends.
C14_InOrder ==
    /\ \A k \in DOMAIN IngestTokens : IngestTokens[k][2] = k
    /\ \A k \in DOMAIN IngestTokens :
         IngestTokens[k][4] = "part"
            => /\ k = Len(IngestTokens)
               /\ hist.writeFailed
               /\ pc \in ShutdownPcs
    /\ pc = "write_ingest" => Len(IngestTokens) = Taken - 1
    /\ (pc # "write_ingest" /\ ~hist.writeFailed)
            => Len(IngestTokens) = Taken
    /\ (pc # "write_ingest" /\ hist.writeFailed)
            => Len(IngestTokens) \in {Taken - 1, Taken}

C14_Witness ==
    /\ Len(IngestTokens) = 2
    /\ IngestTokens[1][4] = "full"
    /\ IngestTokens[2][4] = "part"
    /\ \E k \in DOMAIN encOut : IsDecoder(encOut[k])

\* C16: after a failed spawn, a failed read or a failed wait of a decoder
\* play() is over: no node is pulled, no decoder is spawned or read and
\* nothing is written to the encoder any more.
C16_FatalStops ==
    /\ [](hist.fatal # "none" => pc = "panic")
    /\ [][hist.fatal # "none"
            => /\ source' = source
               /\ spawned' = spawned
               /\ encOut' = encOut
               /\ decIn' = decIn
               /\ hist'.pulled = hist.pulled]_vars
    /\ [][hist'.fatal # hist.fatal
            => /\ pc \in {"spawn", "read", "wait"}
               /\ hist'.fatal = pc]_vars

C16_Witness ==
    /\ hist.fatal = "wait"
    /\ pc = "panic"
    /\ source # <<>>
    /\ encOut # <<>>

\* C17: when the termination request of the takeover fails, the chunk has
\* been written, kill_dec is cleared, the resync request is made, and
\* play() goes on with the next iteration of the same item; no second
\* request is made for the item.
C17_FailedTakeoverRequest ==
    /\ [][(pc = "write_ingest" /\ termLog' # termLog
             /\ hist'.item.decTermErr)
            => /\ pc' = "read"
               /\ ~kill_dec'
               /\ live_on'
               /\ init_playlist' = ResyncInit(init_playlist)
               /\ encOut' = Append(encOut, <<"i", receive, itemNo, "full">>)
               /\ hist'.fatal = "none"
               /\ ~is_terminated']_vars
    /\ []((hist.item.decTermErr /\ pc \in ItemPcs)
            => ~kill_dec /\ TakeoverReqs(itemNo) = 1)

C17_Witness ==
    /\ hist.item.decTermErr
    /\ pc = "read"
    /\ TakeoverReqs(itemNo) = 1
    /\ Len(IngestTokens) = 2
    /\ IngestTokens[2] = <<"i", 2, itemNo, "full">>
    /\ IngestTokens[1][3] = itemNo
    /\ init_playlist = Some(TRUE)

\* C18: when no ingest chunk is ever sent, no encoder write fails and no
\* decoder call fails, play() reaches the end of the shutdown sequence.
C18_NoStallWithoutIngest ==
    <>(\/ pc = "done" /\ is_terminated
       \/ sent > 0
       \/ hist.writeFailed
       \/ hist.fatal # "none")

C18_Witness ==
    /\ pc = "done"
    /\ is_terminated
    /\ sent = 0
    /\ ~hist.writeFailed
    /\ Cardinality(spawned) = 2
    /\ spawned = reaped
    /\ Len(encOut) = 2

\* C19 as stated: after the takeover no read of the item's decoder is
\* issued.
C19_NoReadAfterTakeover == ~hist.item.readAfter

\* C19: after the takeover every iteration of the inner loop still starts
\* with a read of the item's decoder: a written chunk is followed by a
\* read, and the reads end only with the handback or with a failed write
\* or read.
C19_ReadsGoOn ==
    /\ [](hist.item.readAfter => hist.item.takenOver)
    /\ [][(pc = "write_ingest" /\ pc' # pc /\ ~hist'.writeFailed)
            => pc' = "read"]_vars
    /\ []((hist.item.takenOver
             /\ pc \in {"poll", "write_ingest", "write_dec", "wait"})
            => hist.item.readAfter)

C19_Witness ==
    /\ hist.item.readAfter
    /\ pc = "poll"
    /\ Len(buffer) > 0
    /\ decoder_term # None

(* ------------------ norm_abs_path (engine/src/file/mod.rs) ------------- *)
\* paths are strings, modelled as sequences of characters
Chars == {"/", ".", "a"}

Paths == UNION {[1..n -> Chars] : n \in 0..MaxPathLen}

\* the storage roots the function is called with
Roots == {<<"/", "a">>, <<"/", "a", "/", "a">>}

CurDir == <<".">>
ParentDir == <<".", ".">>

RECURSIVE SplitFrom(_, _, _, _)
SplitFrom(s, i, cur, acc) ==
    LET done == IF cur = <<>> THEN acc ELSE Append(acc, cur) IN
    IF i > Len(s) THEN done
    ELSE IF s[i] = "/" THEN SplitFrom(s, i + 1, <<>>, done)
    ELSE SplitFrom(s, i + 1, Append(cur, s[i]), acc)

\* the components of a path: the pieces between separators, empty pieces
\* left out
Components(s) == SplitFrom(s, 1, <<>>, <<>>)

RECURSIVE JoinFrom(_, _)
JoinFrom(cs, i) ==
    IF i > Len(cs) THEN <<>>
    ELSE IF i = Len(cs) THEN cs[i]
    ELSE cs[i] \o <<"/">> \o JoinFrom(cs, i + 1)

\* to_string() of a relative path: the components joined by "/"
to_string(cs) == JoinFrom(cs, 1)

RECURSIVE Traverse(_, _, _)
Traverse(cs, i, buf) ==
    IF i > Len(cs) THEN buf
    ELSE IF cs[i] = CurDir THEN Traverse(cs, i + 1, buf)
    ELSE IF cs[i] = ParentDir
    THEN IF buf = <<>> \/ Last(buf) = ParentDir
         THEN Traverse(cs, i + 1, Append(buf, ParentDir))
         ELSE Traverse(cs, i + 1, SubSeq(buf, 1, Len(buf) - 1))
    ELSE Traverse(cs, i + 1, Append(buf, cs[i]))

\* RelativePath::normalize: "." is dropped, ".." removes the normal
\* component before it and is kept when there is none
Normalize(s) == Traverse(Components(s), 1, <<>>)

RECURSIVE ReplaceFrom(_, _, _)
ReplaceFrom(s, i, out) ==
    IF i > Len(s) THEN out
    ELSE IF /\ i + 2 <= Len(s)
            /\ SubSeq(s, i, i + 2) = <<".", ".", "/">>
    THEN ReplaceFrom(s, i + 3, out)
    ELSE ReplaceFrom(s, i + 1, Append(out, s[i]))

\* str::replace("../", ""): every non-overlapping match, left to right
ReplaceParent(s) == ReplaceFrom(s, 1, <<>>)

\* str::starts_with
StartsWith(s, p) == Len(p) <= Len(s) /\ SubSeq(s, 1, Len(p)) = p

\* str::strip_prefix on an Option: None stays None
StripPrefix(o, p) ==
    IF o # None /\ StartsWith(o[1], p)
    THEN Some(SubSeq(o[1], Len(p) + 1, Len(o[1])))
    ELSE None

UnwrapOr(o, d) == IF o = None THEN d ELSE o[1]

\* the components std::path::Path sees: "." is left out, ".." is kept
PathComponents(s) == SelectSeq(Components(s), LAMBDA c : c # CurDir)

\* Path::file_name: the last component if it is a normal one
FileName(s) ==
    LET cs == PathComponents(s) IN
    IF cs = <<>> \/ Last(cs) = ParentDir THEN <<>> ELSE Last(cs)

\* Path::join: an absolute argument replaces the path, a relative one is
\* appended after a separator
PathJoin(root, rel) ==
    IF StartsWith(rel, <<"/">>) THEN rel
    ELSE IF root # <<>> /\ Last(root) = "/" THEN root \o rel
    ELSE root \o <<"/">> \o rel

\* lines 306-343
norm_abs_path(root, input) ==
    LET path_relative == ReplaceParent(to_string(Normalize(root)))
        path_suffix == FileName(root)
        normalized == ReplaceParent(to_string(Normalize(input)))
        source_relative ==
            IF StartsWith(input, root) \/ StartsWith(normalized, path_relative)
            THEN UnwrapOr(StripPrefix(StripPrefix(Some(normalized),
                                                  path_relative),
                                      <<"/">>),
                          <<>>)
            ELSE UnwrapOr(StripPrefix(StripPrefix(Some(normalized),
                                                  path_suffix),
                                      <<"/">>),
                          normalized)
    IN [path |-> PathJoin(root, source_relative),
        path_suffix |-> path_suffix,
        source_relative |-> source_relative]

\* a caller is about to call norm_abs_path; play() is not part of this
\* specification and stays in its initial state
PathInit ==
    /\ PlayInit
    /\ mode = "folder"
    /\ ~ingest_enable
    /\ source = <<>>
    /\ encoder_term = None
    /\ ArgsIdle /\ MapIdle /\ WatchIdle /\ GuardsIdle /\ FolderIdle
    /\ root_path \in Roots
    /\ input_path \in Paths
    /\ path_out = None

NormAbsPathCall ==
    /\ path_out = None
    /\ path_out' = Some(norm_abs_path(root_path, input_path))
    /\ UNCHANGED <<root_path, input_path, dec_args, media_map, watch,
                   guards, folder, cfgVars, source, chan, sent,
                   decVars, cellVars, pc, node, itemNo, buffer, receive,
                   live_on, kill_dec, encOut, decIn, procVars, termLog,
                   hist>>

PathNext == NormAbsPathCall

PathSpec == PathInit /\ [][PathNext]_vars

\* the components k of cs, from position a on, that are / are not ".."
Ups(cs, a, n) == Cardinality({k \in a..n : cs[k] = ParentDir})
Downs(cs, a, n) == Cardinality({k \in a..n : cs[k] # ParentDir})

\* path p is inside root: it begins with root, and walking the components
\* that follow never leads above root
Inside(root, p) ==
    LET rc == PathComponents(root)
        cs == PathComponents(p)
    IN /\ StartsWith(p, root)
       /\ StartsWith(cs, rc)
       /\ \A n \in (Len(rc) + 1)..Len(cs) :
            Ups(cs, Len(rc) + 1, n) <= Downs(cs, Len(rc) + 1, n)

\* C20: whatever the input path, the path norm_abs_path returns has
\* root_path as prefix and no component of it climbs above root_path.
C20_NoBreakOut ==
    path_out # None => Inside(root_path, path_out[1].path)

\* the decoder bytes written to the encoder, in the order of the writes
DecTokens == SelectSeq(encOut, IsDecoder)

\* byte a was read before byte b: an earlier item, or earlier in the item
ReadBefore(a, b) == a[2] < b[2] \/ (a[2] = b[2] /\ a[3] < b[3])

\* C25: the decoder bytes that reach the encoder are in read order, no
\* byte twice and no byte of an item after a byte of a later item; each
\* write takes its bytes from the front of the most recent read, so a
\* byte left out when a chunk won is never written later.
C25_DecoderOrder ==
    /\ [](\A i, j \in DOMAIN DecTokens :
            i < j => ReadBefore(DecTokens[i], DecTokens[j]))
    /\ [](\A i \in DOMAIN DecTokens :
            \E j \in DOMAIN decIn : decIn[j] = DecTokens[i])
    /\ [][(Len(encOut') > Len(encOut) /\ IsDecoder(Last(encOut')))
            => /\ \E k \in 1..Len(buffer) :
                    encOut' = encOut \o SubSeq(buffer, 1, k)
               /\ buffer = SubSeq(decIn, Len(decIn) - Len(buffer) + 1,
                                  Len(decIn))]_vars

C25_Witness ==
    /\ \E k \in DOMAIN encOut : encOut[k] = <<"d", 1, 2>>
    /\ \A k \in DOMAIN encOut : encOut[k] # <<"d", 1, 1>>
    /\ IngestTokens # <<>>
    /\ decIn = << <<"d", 1, 1>>, <<"d", 1, 2>> >>

\* C27 as stated: the encoder slot is populated from the start of the
\* session until the shutdown sequence.
C27_EncoderPopulated == encoder_term # None

\* C27: encoder_term has its final value before the first node is pulled:
\* Some if enc_proc.terminator() succeeded and None if it failed; no step
\* of play() changes it afterwards, and no step of play() writes
\* server_term, which only the ingest server fills.
C27_SlotsUntouched ==
    /\ [][encoder_term' = encoder_term]_vars
    /\ [][server_term' # server_term
            => /\ server_term = None
               /\ ingest_enable
               /\ UNCHANGED <<pc, encOut, decIn, termLog, spawned, reaped,
                              decoder_term>>]_vars

C27_Witness ==
    /\ encoder_term = Some("enc")
    /\ decoder_term = Some(2)
    /\ server_term = Some("srv")
    /\ pc = "done"
    /\ Len(termLog) >= 4

\* positions of the inner loop of lines 162-207
InnerLoopPcs == {"read", "poll", "write_ingest", "write_dec"}

\* C30: when the ingest server delivers a further chunk after a chunk was
\* forwarded, play() is still in the inner loop of the item during which
\* that chunk was forwarded (or the session has ended): it has not handed
\* back, pulled a node or spawned a decoder in between.
C30_StaysLive ==
    [][(sent' = sent + 1 /\ IngestTokens # <<>>)
         => \/ pc \in ShutdownPcs \cup {"panic"}
            \/ /\ pc \in InnerLoopPcs
               /\ Last(IngestTokens)[3] = itemNo]_vars

(* --------------- play(): the decoder command, lines 121-131 ------------ *)
\* the variables of play() as modelled by Spec
playVars == <<cfgVars, source, chan, sent, decVars, cellVars, pc, node,
              itemNo, buffer, receive, live_on, kill_dec, encOut, decIn,
              procVars, termLog, hist>>

\* play() is not part of the specification and stays in its initial state
PlayIdle ==
    /\ PlayInit
    /\ mode = "folder"
    /\ ~ingest_enable
    /\ source = <<>>
    /\ encoder_term = None

\* the sequences over S of at most n elements
SeqsUpTo(S, n) == UNION {[1..k -> S] : k \in 0..n}

\* line 122: "-hide_banner", "-nostats", "-v", ff_log_format
FixedFlags == <<"-hide_banner", "-nostats", "-v", "level+error">>

\* a test that takes every filter list that is not empty
UseFilter_NonEmpty(filter) == Len(filter) > 0

\* line 126
UseFilter(filter) == Len(filter) > 1

\* lines 122-130: the vector grows by append, in this order
ComposeDecCmd(cmd, filter, dec_settings) ==
    LET v1 == FixedFlags
        v2 == v1 \o cmd
        v3 == IF UseFilter(filter) THEN v2 \o filter ELSE v2
    IN v3 \o dec_settings

ArgsInit ==
    /\ PlayIdle /\ PathIdle /\ MapIdle /\ WatchIdle /\ GuardsIdle /\ FolderIdle
    /\ dec_args \in [cmd : SeqsUpTo({"c1", "c2"}, MaxArgs),
                     filter : SeqsUpTo({"f1", "f2"}, MaxArgs),
                     dec_settings : SeqsUpTo({"s1"}, MaxArgs),
                     dec_cmd : {None}]

ComposeCall ==
    /\ dec_args # <<>>
    /\ dec_args.dec_cmd = None
    /\ dec_args' = [dec_args EXCEPT !.dec_cmd =
            Some(ComposeDecCmd(dec_args.cmd, dec_args.filter,
                               dec_args.dec_settings))]
    /\ UNCHANGED <<pathVars, media_map, watch, guards, folder, playVars>>

ArgsNext == ComposeCall

ArgsSpec == ArgsInit /\ [][ArgsNext]_vars

\* C26: the decoder command is the four fixed flags, then the arguments of
\* node.cmd, then the filter arguments if and only if the filter list has
\* more than one entry, then the decode settings; nothing else.
C26_CommandOrder ==
    (dec_args # <<>> /\ dec_args.dec_cmd # None) =>
      LET out == dec_args.dec_cmd[1]
          c == Len(dec_args.cmd)
          f == IF Len(dec_args.filter) >= 2 THEN Len(dec_args.filter) ELSE 0
          t == Len(dec_args.dec_settings)
      IN /\ Len(out) = 4 + c + f + t
         /\ SubSeq(out, 1, 4) = <<"-hide_banner", "-nostats", "-v",
                                  "level+error">>
         /\ SubSeq(out, 5, 4 + c) = dec_args.cmd
         /\ f > 0 => SubSeq(out, 5 + c, 4 + c + f) = dec_args.filter
         /\ SubSeq(out, 5 + c + f, 4 + c + f + t) = dec_args.dec_settings

C26_Witness ==
    /\ dec_args # <<>>
    /\ dec_args.dec_cmd # None
    /\ Len(dec_args.filter) = 1
    /\ Len(dec_args.cmd) = 2
    /\ Len(dec_args.dec_settings) = 1
    /\ Len(dec_args.dec_cmd[1]) = 7

(* ------------- MediaMap (engine/src/file/{,utils/}media_map.rs) -------- *)
\* the two versions of the type in the repository: they differ in
\* update_obj only
MapImpls == {"file/media_map.rs", "file/utils/media_map.rs"}

\* object keys
Keys == {"a", "b", "c"}

\* the tasks that call the shared map
Callers == {1, 2}

\* a mutex nobody holds
Free == 0

IdleCall == [pc |-> "idle", op |-> "none", key |-> "a", new_key |-> "a",
             value |-> 0, inner |-> FALSE]

\* position of the first x in queue q: queue.iter().position(|k| k == x)
Position(q, x) ==
    IF \E i \in DOMAIN q : q[i] = x
    THEN Some(CHOOSE i \in DOMAIN q : q[i] = x /\ \A j \in 1..(i - 1) : q[j] # x)
    ELSE None

\* VecDeque::remove(index)
RemoveAt(q, i) == SubSeq(q, 1, i - 1) \o SubSeq(q, i + 1, Len(q))

\* MediaMap::create(limit): both collections empty.  The HashMap is
\* modelled by its key set (video_duration_data) and by the value it
\* holds for every key (durations, None for a key that is not cached);
\* `first` and `last` record for every cached key when its entry was
\* first and last inserted
MapInit ==
    /\ PlayIdle /\ PathIdle /\ FolderIdle /\ ArgsIdle /\ WatchIdle /\ GuardsIdle
    /\ \E impl \in MapImpls, limit \in 1..MaxLimit :
         media_map = [impl |-> impl,
                      limit |-> limit,
                      video_duration_data |-> {},
                      durations |-> [k \in Keys |-> None],
                      queue |-> <<>>,
                      data_owner |-> Free,
                      queue_owner |-> Free,
                      call |-> [c \in Callers |-> IdleCall],
                      ncalls |-> 0,
                      first |-> [k \in Keys |-> 0],
                      last |-> [k \in Keys |-> 0],
                      done |-> [op |-> "none", key |-> "a", new_key |-> "a",
                                removed |-> None, n |-> 0]]

MapFrame ==
    UNCHANGED <<pathVars, dec_args, watch, guards, folder, playVars>>

\* the duration of the object at a key, which is what the callers of
\* add_obj pass: every object has a duration of its own
DurationOf == [a |-> 1, b |-> 2, c |-> 3]

\* a task calls add_obj, remove_obj or update_obj
CallStart(c) ==
    /\ media_map # <<>>
    /\ media_map.call[c].pc = "idle"
    /\ media_map.ncalls < MaxCalls
    /\ \E op \in {"add", "remove", "update"}, k \in Keys, nk \in Keys :
         /\ op # "update" => nk = k
         /\ media_map' = [media_map EXCEPT
              !.ncalls = @ + 1,
              !.call[c] = [pc |-> "lock_data", op |-> op, key |-> k,
                           new_key |-> nk,
                           value |-> IF op = "add" THEN DurationOf[k] ELSE 0,
                           inner |-> FALSE]]
    /\ MapFrame

\* self.video_duration_data.lock().await: lines 25, 43, 53
LockData(c) ==
    /\ media_map # <<>>
    /\ media_map.call[c].pc = "lock_data"
    /\ media_map.data_owner = Free
    /\ media_map' = [media_map EXCEPT !.data_owner = c,
                                      !.call[c].pc = "lock_queue"]
    /\ MapFrame

\* self.queue.lock().await: lines 26, 44, 54
LockQueue(c) ==
    /\ media_map # <<>>
    /\ media_map.call[c].pc = "lock_queue"
    /\ media_map.queue_owner = Free
    /\ media_map' = [media_map EXCEPT !.queue_owner = c,
                                      !.call[c].pc = "body"]
    /\ MapFrame

\* lines 27-33 on collections d (keys) and q: the new collections and the
\* key whose entry line 29 removed
AddBody(d, q, limit, key) ==
    LET pop == Cardinality(d) >= limit /\ q # <<>>
        oldest_key == Head(q)
        d1 == IF pop THEN d \ {oldest_key} ELSE d
        q1 == IF pop THEN Tail(q) ELSE q
    IN [data |-> d1 \cup {key},
        queue |-> Append(q1, key),
        removed |-> IF pop /\ oldest_key \in d THEN Some(oldest_key)
                    ELSE None]

\* lines 45-48
RemoveBody(d, q, key) ==
    [data |-> d \ {key},
     queue |-> IF Position(q, key) # None
               THEN RemoveAt(q, Position(q, key)[1]) ELSE q,
     removed |-> IF key \in d THEN Some(key) ELSE None]

\* file/utils/media_map.rs, lines 57-72
UpdateBody(d, q, limit, old_key, new_key) ==
    IF old_key \in d
    THEN LET d1 == d \ {old_key}
             index == Position(q, old_key)
             pop == Len(q) >= limit /\ q # <<>>
         IN IF index # None
            THEN [data |-> d1 \cup {new_key},
                  queue |-> [q EXCEPT ![index[1]] = new_key],
                  removed |-> None]
            ELSE [data |-> (IF pop THEN d1 \ {Head(q)} ELSE d1)
                             \cup {new_key},
                  queue |-> Append(IF pop THEN Tail(q) ELSE q, new_key),
                  removed |-> IF pop /\ Head(q) \in d1 THEN Some(Head(q))
                              ELSE None]
    ELSE [data |-> d, queue |-> q, removed |-> None]

\* file/media_map.rs, lines 60-62: what follows the inner add_obj
ReplaceInQueue(q, old_key, new_key) ==
    IF Position(q, old_key) # None
    THEN [q EXCEPT ![Position(q, old_key)[1]] = new_key]
    ELSE q

\* the insertion times after a call: an inserted key is stamped, a
\* renamed entry keeps its times, a key that is gone has none
Stamped(m, r, op, key, new_key) ==
    LET now == m.ncalls
        f0 == IF op = "update" /\ key \in m.video_duration_data
              THEN [m.first EXCEPT ![new_key] = m.first[key]]
              ELSE IF op = "add" /\ key \notin m.video_duration_data
              THEN [m.first EXCEPT ![key] = now]
              ELSE m.first
        l0 == IF op = "update" /\ key \in m.video_duration_data
              THEN [m.last EXCEPT ![new_key] = m.last[key]]
              ELSE IF op = "add"
              THEN [m.last EXCEPT ![key] = now]
              ELSE m.last
    IN [first |-> [k \in Keys |-> IF k \in r.data THEN f0[k] ELSE 0],
        last |-> [k \in Keys |-> IF k \in r.data THEN l0[k] ELSE 0]]

\* the values of the HashMap after a call that leaves the keys r.data and
\* whose insert (add_obj line 32, update_obj line 71) stored `ins`, None
\* or Some of <<key, value>>
DurationsAfter(m, r, ins) ==
    [k \in Keys |->
       IF k \notin r.data THEN None
       ELSE IF ins # None /\ k = ins[1][1] THEN Some(ins[1][2])
       ELSE m.durations[k]]

\* the body of the call, with both guards held, up to the return, where
\* the guards are dropped.  update_obj of file/media_map.rs calls
\* self.add_obj (line 57) with its guards alive: the inner call starts by
\* locking video_duration_data again
Body(c) ==
    /\ media_map # <<>>
    /\ media_map.call[c].pc = "body"
    /\ LET m == media_map
           cl == m.call[c]
           d == m.video_duration_data
           q == m.queue
           finish(r, op, ins) ==
               media_map' = [m EXCEPT
                   !.video_duration_data = r.data,
                   !.durations = DurationsAfter(m, r, ins),
                   !.queue = r.queue,
                   !.data_owner = Free,
                   !.queue_owner = Free,
                   !.call[c] = IdleCall,
                   !.first = Stamped(m, r, op, cl.key, cl.new_key).first,
                   !.last = Stamped(m, r, op, cl.key, cl.new_key).last,
                   !.done = [op |-> op, key |-> cl.key,
                             new_key |-> cl.new_key,
                             removed |-> r.removed, n |-> m.done.n + 1]]
       IN CASE cl.op = "add" ->
                 finish(AddBody(d, q, m.limit, cl.key), "add",
                        Some(<<cl.key, cl.value>>))
            [] cl.op = "remove" ->
                 finish(RemoveBody(d, q, cl.key), "remove", None)
            [] cl.op = "update" /\ m.impl = "file/utils/media_map.rs" ->
                 finish(UpdateBody(d, q, m.limit, cl.key, cl.new_key),
                        "update",
                        IF cl.key \in d
                        THEN Some(<<cl.new_key, m.durations[cl.key][1]>>)
                        ELSE None)
            [] cl.op = "update" /\ m.impl = "file/media_map.rs" ->
                 IF cl.inner
                 THEN \* the inner add_obj has returned
                      LET r == AddBody(d, q, m.limit, cl.new_key) IN
                      finish([r EXCEPT !.queue =
                                ReplaceInQueue(@, cl.key, cl.new_key)],
                             "update", Some(<<cl.new_key, cl.value>>))
                 ELSE IF cl.key \in d
                 THEN \* line 56 took the value out; line 57 passes it on
                      media_map' = [m EXCEPT
                          !.video_duration_data = d \ {cl.key},
                          !.durations[cl.key] = None,
                          !.call[c].pc = "lock_data",
                          !.call[c].value = m.durations[cl.key][1],
                          !.call[c].inner = TRUE]
                 ELSE finish([data |-> d,
                              queue |-> ReplaceInQueue(q, cl.key, cl.new_key),
                              removed |-> None], "update", None)
    /\ MapFrame

MapNext ==
    \E c \in Callers :
       \/ CallStart(c)
       \/ LockData(c)
       \/ LockQueue(c)
       \/ Body(c)

MapSpec == MapInit /\ [][MapNext]_vars

\* key k is, among the cached keys of map m, one inserted earliest: by
\* the time its entry was first inserted or by the time it was last
\* inserted
InsertedEarliest(m, k) ==
    /\ k \in m.video_duration_data
    /\ \/ \A j \in m.video_duration_data : m.first[k] <= m.first[j]
       \/ \A j \in m.video_duration_data : m.last[k] <= m.last[j]

\* the step is the return of an add_obj that found the map full
FullAddReturns ==
    /\ media_map # <<>>
    /\ media_map'.done.n = media_map.done.n + 1
    /\ media_map'.done.op = "add"
    /\ Cardinality(media_map.video_duration_data) >= media_map.limit

\* C22: an add_obj that finds at least `limit` cached durations removes
\* the entry inserted earliest among the cached ones, and the added key
\* is cached when it returns.
C22_FifoEviction ==
    [][FullAddReturns
         => /\ media_map'.done.removed # None
            /\ InsertedEarliest(media_map, media_map'.done.removed[1])
            /\ media_map'.done.key \in media_map'.video_duration_data]_vars

\* C28: a MediaMap of file/utils/media_map.rs never holds more than
\* `limit` durations.
C28_LimitKept ==
    (media_map # <<>> /\ media_map.impl = "file/utils/media_map.rs")
        => Cardinality(media_map.video_duration_data) <= media_map.limit

\* C29: no call waits for a mutex that the same call holds.
C29_NoSelfWait ==
    media_map # <<>> =>
      \A c \in Callers :
         /\ ~(media_map.call[c].pc = "lock_data" /\ media_map.data_owner = c)
         /\ ~(media_map.call[c].pc = "lock_queue"
                /\ media_map.queue_owner = c)

(* ------------------- watch_s3 (engine/src/file/s3.rs) ------------------ *)
\* the object keys a bucket can hold: a name and an extension
S3Keys == [name : {"a", "b"}, ext : {"mp4"}] \cup [name : {"c"}, ext : {"txt"}]

\* config.storage.extensions
Extensions == {"mp4"}

\* include_file_extension(&config, Path::new(key))
include_file_extension(key) == key.ext \in Extensions

\* a string that names an object: the key itself, or the presigned URL
\* s3_get_object builds for it (lines 157-176)
KeyString(key) == [scheme |-> "", key |-> key]
PresignedUrl(key) == [scheme |-> "https", key |-> key]

\* lines 122-123: self.fetch_file_path(key).await.unwrap_or(key.to_string())
FetchedPath(key, r) == IF r = "Ok" THEN PresignedUrl(key) ELSE KeyString(key)

\* Media::new(id, fetched_path, false): the path becomes media.source;
\* added_for records the key the Media was made for
MediaNew(fetched_path, key) == [source |-> fetched_path, added_for |-> key]

\* line 137: sources.retain(|x| x.source != *key)
Retain(srcs, key) == SelectSeq(srcs, LAMBDA x : x.source # KeyString(key))

RECURSIVE RetainAll(_, _)
RetainAll(srcs, keys) ==
    IF keys = {} THEN srcs
    ELSE LET k == CHOOSE x \in keys : TRUE
         IN RetainAll(Retain(srcs, k), keys \ {k})

\* the orders in which a HashSet difference can be iterated
Orders(S) == {o \in [1..Cardinality(S) -> S] :
                \A i, j \in DOMAIN o : i # j => o[i] # o[j]}

\* lines 120-132: one push per added key that has an allowed extension
RECURSIVE PushAdded(_, _, _, _)
PushAdded(srcs, order, i, fetch) ==
    IF i > Len(order) THEN srcs
    ELSE LET key == order[i]
         IN PushAdded(IF include_file_extension(key)
                      THEN Append(srcs,
                                  MediaNew(FetchedPath(key, fetch[key]), key))
                      ELSE srcs,
                      order, i + 1, fetch)

\* a loop that does not look at is_alive
WhileCond_Ignored(is_alive) == TRUE

\* line 106: while is_alive.load(Ordering::SeqCst)
WhileCond(is_alive) == is_alive

\* lines 96-104: previous_keys is empty; the bucket holds any objects and
\* the shared list starts empty
WatchInit ==
    /\ PlayIdle /\ PathIdle /\ FolderIdle /\ ArgsIdle /\ MapIdle /\ GuardsIdle
    /\ \E b \in SUBSET S3Keys, alive \in BOOLEAN :
         watch = [bucket |-> b,
                  is_alive |-> alive,
                  previous_keys |-> {},
                  sources |-> <<>>,
                  pc |-> "cond",
                  listings |-> 0,
                  resp |-> "none"]

WatchFrame ==
    UNCHANGED <<pathVars, dec_args, media_map, guards, folder, playVars>>

\* line 106: the loop condition
WatchCond ==
    /\ watch # <<>>
    /\ watch.pc = "cond"
    /\ watch' = [watch EXCEPT !.pc = IF WhileCond(watch.is_alive)
                                     THEN "list" ELSE "end"]
    /\ WatchFrame

\* lines 107-151: one listing and what follows from it
WatchList ==
    /\ watch # <<>>
    /\ watch.pc = "list"
    /\ watch.listings < MaxListings
    /\ \/ watch' = [watch EXCEPT !.pc = "sleep", !.listings = @ + 1,
                                 !.resp = "Err"]
       \/ LET current_keys == watch.bucket
              added == current_keys \ watch.previous_keys
              removed == watch.previous_keys \ current_keys
          IN \E order \in Orders(added), fetch \in [added -> Results] :
               watch' = [watch EXCEPT
                  !.sources = RetainAll(PushAdded(@, order, 1, fetch),
                                        removed),
                  !.previous_keys = current_keys,
                  !.pc = "sleep",
                  !.listings = @ + 1,
                  !.resp = "Ok"]
    /\ WatchFrame

\* line 153
WatchSleep ==
    /\ watch # <<>>
    /\ watch.pc = "sleep"
    /\ watch' = [watch EXCEPT !.pc = "cond"]
    /\ WatchFrame

\* somebody uploads or deletes an object
BucketChange ==
    /\ watch # <<>>
    /\ \E k \in S3Keys :
         watch' = [watch EXCEPT !.bucket = IF k \in @ THEN @ \ {k}
                                           ELSE @ \cup {k}]
    /\ WatchFrame

\* a holder of is_alive stores a value
StoreAlive ==
    /\ watch # <<>>
    /\ \E b \in BOOLEAN :
         /\ b # watch.is_alive
         /\ watch' = [watch EXCEPT !.is_alive = b]
    /\ WatchFrame

WatchNext ==
    \/ WatchCond
    \/ WatchList
    \/ WatchSleep
    \/ BucketChange
    \/ StoreAlive

WatchSpec == WatchInit /\ [][WatchNext]_vars

\* the Media in sources that were added for key k
AddedFor(k) == {i \in DOMAIN watch.sources : watch.sources[i].added_for = k}

\* C21: sources is in step with the last successful listing: one Media
\* for every listed key with an allowed extension, none for a key that
\* is not listed any more.
C21_SourcesInStep ==
    watch # <<>> =>
      \A k \in S3Keys :
         IF k \in watch.previous_keys /\ include_file_extension(k)
         THEN Cardinality(AddedFor(k)) = 1
         ELSE AddedFor(k) = {}

\* C23: when the loop condition finds is_alive false the task ends, and
\* after that it lists nothing and leaves sources alone, whatever is
\* stored in is_alive later; when it finds is_alive true it lists, and
\* after every listing, failed or not, it sleeps and evaluates the
\* condition again.
C23_AliveControlsLoop ==
    /\ [][(watch # <<>> /\ watch.pc = "cond" /\ watch'.pc # "cond")
            => /\ watch'.pc = IF watch.is_alive THEN "list" ELSE "end"
               /\ watch' = [watch EXCEPT !.pc = watch'.pc]]_vars
    /\ [][(watch # <<>> /\ watch.pc = "end")
            => /\ watch'.pc = "end"
               /\ watch'.sources = watch.sources
               /\ watch'.previous_keys = watch.previous_keys
               /\ watch'.listings = watch.listings]_vars
    /\ [][(watch # <<>> /\ watch'.listings # watch.listings)
            => watch.pc = "list" /\ watch'.pc = "sleep"]_vars
    /\ [][(watch # <<>> /\ watch.pc = "sleep" /\ watch'.pc # "sleep")
            => watch'.pc = "cond"]_vars
    /\ [][(watch # <<>> /\ watch'.sources # watch.sources)
            => watch.pc = "list"]_vars

C23_Witness ==
    /\ watch # <<>>
    /\ watch.pc = "end"
    /\ watch.is_alive
    /\ watch.resp = "Err"
    /\ watch.listings >= 2
    /\ watch.sources # <<>>
    /\ watch.bucket # watch.previous_keys

(* --------------- play(): the mutexes of the shared cells --------------- *)
\* the Arc<Mutex<..>> cells of lines 30-34 and 65-66
Cells == {"decoder_term", "encoder_term", "server_term", "is_terminated",
          "init"}

\* the statements of play() that lock a cell, and the cell they lock:
\* line 150, lines 178-184, line 189, line 214, lines 218-224, 226-232
\* and 234-240
LockAt == [store_dec |-> "decoder_term",
           takeover |-> "decoder_term",
           resync |-> "init",
           set_terminated |-> "is_terminated",
           term_dec |-> "decoder_term",
           term_enc |-> "encoder_term",
           term_srv |-> "server_term"]

LockPcs == DOMAIN LockAt

\* the blocking calls: read (163), write_all (169), write (193), wait (209)
IoPcs == {"read", "write_all", "write", "wait"}

\* a guard that outlives its statement
Released_Leaked(owner, c) == owner

\* the guard is a temporary of the statement: it is dropped, and the mutex
\* unlocked, at the end of the statement
Released(owner, c) == [owner EXCEPT ![c] = "free"]

\* lines 25-103 as far as the cells go: all mutexes unlocked
GuardsInit ==
    /\ PlayIdle /\ PathIdle /\ ArgsIdle /\ MapIdle /\ WatchIdle /\ FolderIdle
    /\ \E n \in 0..MaxItems, playlist \in BOOLEAN :
         guards = [owner |-> [c \in Cells |-> "free"],
                   pc |-> "pull",
                   holding |-> FALSE,
                   items |-> n,
                   init_playlist |-> playlist,
                   kill_dec |-> FALSE]

GuardsFrame ==
    UNCHANGED <<pathVars, dec_args, media_map, watch, folder, playVars>>

\* what follows the statement that locked at position p
AfterStatement(p, g) ==
    CASE p = "store_dec" -> "read"
      [] p = "takeover" -> IF g.init_playlist THEN "resync" ELSE "read"
      [] p = "resync" -> "read"
      [] p = "set_terminated" -> "term_dec"
      [] p = "term_dec" -> "term_enc"
      [] p = "term_enc" -> "term_srv"
      [] p = "term_srv" -> "done"

\* cell.lock().unwrap(): play() gets the mutex when it is free
GuardAcquire ==
    /\ guards # <<>>
    /\ guards.pc \in LockPcs
    /\ ~guards.holding
    /\ guards.owner[LockAt[guards.pc]] = "free"
    /\ guards' = [guards EXCEPT !.owner[LockAt[guards.pc]] = "play",
                                !.holding = TRUE]
    /\ GuardsFrame

\* the end of the locking statement: the cell has been read or written,
\* and terminate() called where the statement does so
GuardRelease ==
    /\ guards # <<>>
    /\ \E p \in LockPcs :
         /\ guards.pc = p
         /\ guards.holding
         /\ guards' = [guards EXCEPT
              !.owner = Released(@, LockAt[p]),
              !.holding = FALSE,
              !.pc = AfterStatement(p, guards),
              !.kill_dec = CASE p = "store_dec" -> TRUE
                             [] p = "takeover" -> FALSE
                             [] OTHER -> @]
    /\ GuardsFrame

\* the statements of the loop that lock nothing: the for loop, spawn, the
\* blocking calls and try_recv, with every outcome they can have
GuardsLoopStep ==
    /\ guards # <<>>
    /\ \E next \in
         CASE guards.pc = "pull" ->
                IF guards.items > 0 THEN {"spawn", "pull", "set_terminated"}
                ELSE {"set_terminated"}
           [] guards.pc = "spawn" -> {"store_dec", "panic"}
           [] guards.pc = "read" -> {"poll", "panic"}
           [] guards.pc = "poll" -> {"write_all", "write", "wait"}
           [] guards.pc = "write_all" ->
                {IF guards.kill_dec THEN "takeover" ELSE "read",
                 "set_terminated"}
           [] guards.pc = "write" -> {"read", "set_terminated"}
           [] guards.pc = "wait" -> {"pull", "panic"}
           [] OTHER -> {} :
         guards' = [guards EXCEPT
              !.pc = next,
              !.items = IF guards.pc = "pull" /\ @ > 0 THEN @ - 1 ELSE @]
    /\ GuardsFrame

\* another task locks one cell, and unlocks it before it locks another
OtherAcquire ==
    /\ guards # <<>>
    /\ \A c \in Cells : guards.owner[c] # "other"
    /\ \E c \in Cells :
         /\ guards.owner[c] = "free"
         /\ guards' = [guards EXCEPT !.owner[c] = "other"]
    /\ GuardsFrame

OtherRelease ==
    /\ guards # <<>>
    /\ \E c \in Cells :
         /\ guards.owner[c] = "other"
         /\ guards' = [guards EXCEPT !.owner[c] = "free"]
    /\ GuardsFrame

PlayGuardsStep ==
    \/ GuardAcquire
    \/ GuardRelease
    \/ GuardsLoopStep

GuardsNext ==
    \/ PlayGuardsStep
    \/ OtherAcquire
    \/ OtherRelease

GuardsSpec == GuardsInit /\ [][GuardsNext]_vars

\* the cells play() holds
HeldByPlay == {c \in Cells : guards.owner[c] = "play"}

\* C24: play() holds at most one cell at a time, exactly the cell of the
\* locking statement it is in and none outside such a statement, so none
\* during a read, a write or a wait; and as long as play() has not ended,
\* play() can take a step or the task that holds the cell it needs can
\* release it.
C24_OneGuardNoIo ==
    guards # <<>> =>
      /\ Cardinality(HeldByPlay) <= 1
      /\ guards.holding => HeldByPlay = {LockAt[guards.pc]}
      /\ ~guards.holding => HeldByPlay = {}
      /\ guards.pc \in IoPcs => HeldByPlay = {}
      /\ guards.pc \notin {"done", "panic"}
            => (ENABLED PlayGuardsStep) \/ (ENABLED OtherRelease)

C24_Witness ==
    /\ guards # <<>>
    /\ guards.pc = "resync"
    /\ ~guards.holding
    /\ guards.owner["init"] = "other"
    /\ ~guards.kill_dec
    /\ guards.items = 0

(* ----------------- play(): requests for reaped decoders ---------------- *)
\* the step issues dec.terminate() (lines 179-180 or 219-220)
DecTerminateIssued ==
    /\ Len(termLog') = Len(termLog) + 1
    /\ Last(termLog')[1] = "dec"

\* C33: a termination request for a decoder, at takeover or in the
\* shutdown sequence, is addressed to a decoder that has been spawned and
\* has not been waited for.
C33_NoRequestAfterWait ==
    [][DecTerminateIssued
         => /\ Last(termLog')[2] # None
            /\ Last(termLog')[2][1] \in spawned \ reaped]_vars

(* ------------------ MediaMap: the queue and the map -------------------- *)
\* how often key k occurs in queue q
Occurrences(q, k) == Cardinality({i \in DOMAIN q : q[i] = k})

\* C32: in a MediaMap of file/utils/media_map.rs the queue holds every
\* cached key exactly once and no key that is not cached.
C32_QueueMatchesMap ==
    (media_map # <<>> /\ media_map.impl = "file/utils/media_map.rs")
        => \A k \in Keys :
              Occurrences(media_map.queue, k)
                  = IF k \in media_map.video_duration_data THEN 1 ELSE 0

(* ------------------------ MediaMap::update_obj ------------------------- *)
\* lines 37-40
get_obj(m, key) == m.durations[key]

\* the step is the return of an update_obj call
UpdateReturns ==
    /\ media_map # <<>>
    /\ media_map'.done.n = media_map.done.n + 1
    /\ media_map'.done.op = "update"

\* C35: an update_obj(old_key, new_key) that finds old_key cached, with
\* new_key another key, leaves under new_key the duration old_key had and
\* nothing under old_key; one that does not find old_key cached changes
\* neither the map nor the queue.
C35_Renames ==
    [][UpdateReturns =>
         LET old_key == media_map'.done.key
             new_key == media_map'.done.new_key
         IN /\ (get_obj(media_map, old_key) # None /\ old_key # new_key)
                 => /\ get_obj(media_map', new_key)
                         = get_obj(media_map, old_key)
                    /\ get_obj(media_map', old_key) = None
            /\ get_obj(media_map, old_key) = None
                 => /\ media_map'.durations = media_map.durations
                    /\ media_map'.queue = media_map.queue]_vars

(* ------------- FolderSource (engine/src/player/input/folder.rs) -------- *)
\* the media of a folder, each named by its source; sources are ordered
\* as sort_by(|d1, d2| d1.source.cmp(&d2.source)) orders them
Sources == 1..MaxMedia

\* the lists without a repeated source over the sources in S
ListsOver(S) == UNION {Orders(T) : T \in SUBSET S}

\* a list that is left in the order it had
Sort_Kept(list) == list

\* lines 122-128: nodes.sort_by(..)
Sort(list) ==
    LET S == {list[i] : i \in DOMAIN list}
    IN CHOOSE o \in Orders(S) : \A i, j \in DOMAIN o : i < j => o[i] < o[j]

\* lines 111-118: nodes.shuffle(..) can leave any order
Shuffles(list) == Orders({list[i] : i \in DOMAIN list})

\* line 173: current_index.store(1)
IndexAfterFirst == 1

\* FolderSource::from_list (lines 101-108) with any list, or ::new (lines
\* 22-99) with the sorted or shuffled media of the folder; current_index
\* is 0 and next() has not been called
FolderInit ==
    /\ PlayIdle /\ PathIdle /\ ArgsIdle /\ MapIdle /\ WatchIdle /\ GuardsIdle
    /\ \E list \in ListsOver(Sources), shuffle \in BOOLEAN :
         folder = [current_list |-> list,
                   current_index |-> 0,
                   shuffle |-> shuffle,
                   pc |-> "idle",
                   calls |-> 0,
                   first_list |-> list,
                   changed |-> FALSE,
                   returned |-> <<>>]

FolderFrame ==
    UNCHANGED <<pathVars, dec_args, media_map, watch, guards, playVars>>

\* what a call returned, and how long the list was when it was read
Returned(f, ret) ==
    Append(f.returned, [node |-> ret, len |-> Len(f.current_list)])

\* lines 135-140: next() is called and compares current_index with the
\* length of the list; the guard of the list is dropped with the condition
NextCheck ==
    /\ folder # <<>>
    /\ folder.pc = "idle"
    /\ folder.calls < MaxNext
    /\ folder' = [folder EXCEPT
         !.calls = @ + 1,
         !.pc = IF folder.current_index < Len(folder.current_list)
                THEN "access" ELSE "resort"]
    /\ FolderFrame

\* lines 141-148 and 176: current_list.lock().await[i] panics when i is
\* not below the length the list has now
NextAccess ==
    /\ folder # <<>>
    /\ folder.pc = "access"
    /\ LET i == folder.current_index IN
       IF i < Len(folder.current_list)
       THEN folder' = [folder EXCEPT
              !.current_index = @ + 1,
              !.returned = Returned(folder, Some(folder.current_list[i + 1])),
              !.pc = "idle"]
       ELSE folder' = [folder EXCEPT !.pc = "panic"]
    /\ FolderFrame

\* lines 150-162: self.shuffle() or self.sort()
NextResort ==
    /\ folder # <<>>
    /\ folder.pc = "resort"
    /\ \E list \in IF folder.shuffle THEN Shuffles(folder.current_list)
                   ELSE {Sort(folder.current_list)} :
         folder' = [folder EXCEPT !.current_list = list, !.pc = "first"]
    /\ FolderFrame

\* lines 164-176: the first entry, or None from an empty list
NextFirst ==
    /\ folder # <<>>
    /\ folder.pc = "first"
    /\ IF folder.current_list = <<>>
       THEN folder' = [folder EXCEPT
              !.returned = Returned(folder, None),
              !.pc = "idle"]
       ELSE folder' = [folder EXCEPT
              !.current_index = IndexAfterFirst,
              !.returned = Returned(folder, Some(folder.current_list[1])),
              !.pc = "idle"]
    /\ FolderFrame

\* s3.rs lines 134-142: a watcher drops the media of a removed object
\* from the list: sources.lock().await.retain(|x| x.source != *key)
WatcherRetain ==
    /\ folder # <<>>
    /\ \E key \in {folder.current_list[i] : i \in DOMAIN folder.current_list} :
         folder' = [folder EXCEPT
              !.current_list = SelectSeq(@, LAMBDA x : x # key),
              !.changed = TRUE]
    /\ FolderFrame

FolderNext ==
    \/ NextCheck
    \/ NextAccess
    \/ NextResort
    \/ NextFirst
    \/ WatcherRetain

FolderSpec == FolderInit /\ [][FolderNext]_vars

\* C31: next() does not panic on its access to the list.
C31_NoOutOfBounds ==
    folder # <<>> => folder.pc # "panic"

\* the pass (from 0) the k-th return of next() belongs to, for a list of
\* n media
PassOf(k, n) == (k - 1) \div n

\* C34: while nothing changes a non-empty list of n media, the first n
\* calls return its entries in order, every call returns an entry of the
\* list and none returns None, no entry is returned twice within a pass,
\* and every later pass is in ascending order of source unless the list
\* is shuffled; and None is returned only from a list that is empty.
C34_PassesInOrder ==
    folder # <<>> =>
      LET n == Len(folder.first_list)
          r == folder.returned
      IN /\ \A k \in DOMAIN r : r[k].node = None => r[k].len = 0
         /\ (~folder.changed /\ n > 0) =>
              /\ \A k \in DOMAIN r :
                   /\ r[k].node # None
                   /\ PassOf(k, n) = 0
                        => r[k].node = Some(folder.first_list[k])
                   /\ r[k].node[1] \in
                        {folder.first_list[i] : i \in DOMAIN folder.first_list}
              /\ \A k, l \in DOMAIN r :
                   (k < l /\ PassOf(k, n) = PassOf(l, n))
                       => /\ r[k].node # r[l].node
                          /\ (PassOf(k, n) > 0 /\ ~folder.shuffle)
                                => r[k].node[1] < r[l].node[1]

C34_Witness ==
    /\ folder # <<>>
    /\ ~folder.changed
    /\ ~folder.shuffle
    /\ folder.first_list = <<3, 1, 2>>
    /\ Len(folder.returned) = 7
    /\ folder.returned[4].node = Some(1)
    /\ folder.returned[7].node = Some(1)

====
